---------------------------- MODULE Spec2Model ----------------------------
(* A state-machine model of the LAI object evaluator (src/src/eval.c), the   *)
(* resource template parser (src/src/resource.c) and the PCI IRQ router      *)
(* (src/src/pciroute.c).                                                     *)
EXTENDS Integers, Sequences, FiniteSets, TLC

VARIABLES
    \* ---- inputs of one call (what the namespace and the host answer) ----
    reg,            \* laihost_pci_read(bus, slot, function, 0x3C)
    bus, slot, function,
    devices,        \* PNP0A03 devices in lai_get_deviceid order: the outcome of lai_eval(<path>._BBN) of each
    prt_eval,       \* outcome of lai_eval(<path>._PRT) on a root bus
    crs_eval,       \* outcome of lai_eval(<path>._CRS) on the link device
    dest_in,        \* the caller's dest resource before the call
    caller,         \* who called lai_read_resource: "route" or "direct"
    \* ---- locals of lai_pci_route ----
    pc, pin, index, handle, bus_number, prt, prt_package, prt_entry, i,
    res_count, dest, ret,
    \* ---- locals of lai_read_resource, and the array it fills ----
    \* res holds the entries written so far, in index order: an entry at index
    \* ACPI_MAX_RESOURCES or above lies in the memory behind the array
    data, count, res,
    \* ---- the allocator's and the namespace's view of the call ----
    allocs, frees, dest_writes, prt_evals,
    \* ---- lai_eval on a namespace of its own ----
    ns, epath, epc, ehandle, eret, edest,
    ehops           \* turns of the alias loop taken, counted up to MaxHops + 1

vars == << reg, bus, slot, function, devices, prt_eval, crs_eval, dest_in, caller,
           pc, pin, index, handle, bus_number, prt, prt_package, prt_entry, i,
           res_count, dest, ret, data, count, res,
           allocs, frees, dest_writes, prt_evals,
           ns, epath, epc, ehandle, eret, edest, ehops >>

routeVars == << reg, bus, slot, function, devices, prt_eval, crs_eval, dest_in, caller,
                pc, pin, index, handle, bus_number, prt, prt_package, prt_entry, i,
                res_count, dest, ret, data, count, res,
                allocs, frees, dest_writes, prt_evals >>

evalVars == << ns, epath, epc, ehandle, eret, edest, ehops >>

-----------------------------------------------------------------------------
(* Bounds of the model.                                                      *)

MaxDev == 2             \* PNP0A03 devices in the namespace
MaxPrt == 2             \* entries of a _PRT package
MaxDesc == 2            \* descriptors before the end tag of a _CRS buffer
ACPI_MAX_RESOURCES == 3 \* entries the destination array holds (the header's value, scaled down)
MaxNodes == 3           \* nodes of the namespace lai_eval walks
MaxHops == MaxNodes + 1  \* more hops than a chain of aliases without a cycle takes

-----------------------------------------------------------------------------
(* Bit arithmetic on unsigned integers.                                      *)

RECURSIVE Pow2(_)
Pow2(n) == IF n = 0 THEN 1 ELSE 2 * Pow2(n - 1)

Shr(x, n) == x \div Pow2(n)
LowBits(x, n) == x % Pow2(n)
Bit(x, n) == Shr(x, n) % 2 = 1
U8(x) == x % 256

-----------------------------------------------------------------------------
(* lai_object_t: the fields this code reads.                                 *)

Obj(t, n, p, h) == [type |-> t, integer |-> n, package |-> p, handle |-> h]
ZeroObject == Obj("ZERO", 0, << >>, 0)
IntObj(n) == Obj("LAI_INTEGER", n, << >>, 0)
StrObj == Obj("LAI_STRING", 0, << >>, 0)
HandleObj(h) == Obj("LAI_HANDLE", 0, << >>, h)
PkgObj(p) == Obj("LAI_PACKAGE", 0, p, 0)

\* The outcome of one lai_eval call: its status and what it stored.
Failed == [status |-> 1, object |-> ZeroObject]
Ok(o) == [status |-> 0, object |-> o]

-----------------------------------------------------------------------------
(* acpi_resource_t and the flag values of <lai/core.h>.                      *)

ACPI_RESOURCE_IRQ == 3
ACPI_IRQ_LEVEL == 0
ACPI_IRQ_EDGE == 1
ACPI_IRQ_ACTIVE_HIGH == 0
ACPI_IRQ_EXCLUSIVE == 0
ACPI_IRQ_SHARED == 16

RECURSIVE BitOr(_, _)
BitOr(a, b) ==
    IF a = 0 THEN b
    ELSE IF b = 0 THEN a
    ELSE (IF a % 2 = 1 \/ b % 2 = 1 THEN 1 ELSE 0) + 2 * BitOr(a \div 2, b \div 2)

Resource(t, b, f) == [type |-> t, base |-> b, irq_flags |-> f]
ZeroResource == Resource(0, 0, 0)

-----------------------------------------------------------------------------
(* src/src/eval.c: lai_eval_package.                                         *)

\* index >= package->package_size
IndexPastEnd(package, idx) == idx >= Len(package.package)

\* the status returned and the destination afterwards
lai_eval_package(package, idx, destination) ==
    IF package.type # "LAI_PACKAGE"
    THEN [status |-> 1, object |-> destination]
    ELSE IF IndexPastEnd(package, idx)
    THEN [status |-> 1, object |-> destination]
    ELSE [status |-> 0, object |-> package.package[idx + 1]]

-----------------------------------------------------------------------------
(* src/src/resource.c: lai_read_resource.                                    *)

ACPI_SMALL_IRQ == 4
ACPI_SMALL_END == 15
ACPI_LARGE_IRQ == 137
END_TAG == 121

\* the buffer lai_eval stored for _CRS, and data[k] at the cursor
Buffer == crs_eval.buffer
Byte(k) == Buffer[data + k]

\* acpi_small_irq_t: id, irq_mask (16 bits, little-endian), config
SmallIrqMask(d) == Buffer[d + 1] + 256 * Buffer[d + 2]
SmallIrqConfig(d) == Buffer[d + 3]

\* acpi_large_irq_t: id, size (16 bits), config, length, irq (32 bits)
LargeIrqConfig(d) == Buffer[d + 3]
LargeIrqNumber(d) ==
    Buffer[d + 5] + 256 * Buffer[d + 6] + 65536 * Buffer[d + 7] + 16777216 * Buffer[d + 8]

\* dest[c] = entry, on an array whose first Len(array) entries have been written
WriteAt(array, c, entry) ==
    IF c = Len(array) THEN Append(array, entry) ELSE [array EXCEPT ![c + 1] = entry]

\* SmallIrqFlags with the config byte ignored
SmallIrqFlagsDefault(d, data_size) ==
    BitOr(BitOr(ACPI_IRQ_ACTIVE_HIGH, ACPI_IRQ_EDGE), ACPI_IRQ_EXCLUSIVE)

\* the flags of a small IRQ descriptor's entries (lines 83-86)
SmallIrqFlags(d, data_size) ==
    IF data_size >= 3
    THEN SmallIrqConfig(d)
    ELSE BitOr(BitOr(ACPI_IRQ_ACTIVE_HIGH, ACPI_IRQ_EDGE), ACPI_IRQ_EXCLUSIVE)

\* while(small_irq_mask != 0): the array and the count when the loop ends
RECURSIVE SmallIrqLoop(_, _, _, _, _)
SmallIrqLoop(mask, k, flags, array, c) ==
    IF mask = 0
    THEN [array |-> array, count |-> c]
    ELSE IF Bit(mask, k)
    THEN SmallIrqLoop(mask - Pow2(k), k + 1, flags,
                      WriteAt(array, c, Resource(ACPI_RESOURCE_IRQ, k, flags)), c + 1)
    ELSE SmallIrqLoop(mask, k + 1, flags, array, c)

\* the cursor after a small descriptor (line 95) and after a large one (line 118)
SmallAdvance(d, data_size) == d + data_size + 1
LargeAdvance(d, data_size) == d + data_size + 3

\* UndefinedResourceCount handing back the entries decoded so far
UndefinedKeepsCount(c) == c

\* what the default: branches return (lines 100, 123)
UndefinedResourceCount(c) == 0

\* return count: back in the caller
ReadReturn(c) ==
    /\ res_count' = c
    /\ pc' = IF caller = "route" THEN "link" ELSE "done"

\* lines 35-46: evaluate <path>._CRS
ReadEval ==
    /\ pc = "rr_eval"
    /\ IF crs_eval.status # 0
       THEN /\ ReadReturn(0)
            /\ UNCHANGED << data, count >>
       ELSE /\ data' = 1
            /\ count' = 0
            /\ pc' = "rr_loop"
            /\ UNCHANGED res_count
    /\ UNCHANGED << reg, bus, slot, function, devices, prt_eval, crs_eval, dest_in, caller,
                    pin, index, handle, bus_number, prt, prt_package, prt_entry, i,
                    dest, ret, res, allocs, frees, dest_writes, prt_evals >>
    /\ UNCHANGED evalVars

\* lines 56-126: one turn of while(data[0] != 0x79)
ReadDescriptor ==
    /\ pc = "rr_loop"
    /\ IF Byte(0) = END_TAG
       THEN /\ ReadReturn(count)
            /\ UNCHANGED << data, count, res >>
       ELSE IF Byte(0) < 128
       THEN LET data_size == Byte(0) % 8
                type == Shr(Byte(0), 3)
            IN  IF type = ACPI_SMALL_END
                THEN /\ ReadReturn(count)
                     /\ UNCHANGED << data, count, res >>
                ELSE IF type = ACPI_SMALL_IRQ
                THEN LET r == SmallIrqLoop(SmallIrqMask(data), 0,
                                           SmallIrqFlags(data, data_size), res, count)
                     IN  /\ res' = r.array
                         /\ count' = r.count
                         /\ data' = SmallAdvance(data, data_size)
                         /\ UNCHANGED << pc, res_count >>
                ELSE /\ ReadReturn(UndefinedResourceCount(count))
                     /\ UNCHANGED << data, count, res >>
       ELSE LET data_size == Byte(1) + 256 * Byte(2)
            IN  IF Byte(0) = ACPI_LARGE_IRQ
                THEN /\ res' = WriteAt(res, count,
                                       Resource(ACPI_RESOURCE_IRQ, LargeIrqNumber(data),
                                                LargeIrqConfig(data)))
                     /\ count' = count + 1
                     /\ data' = LargeAdvance(data, data_size)
                     /\ UNCHANGED << pc, res_count >>
                ELSE /\ ReadReturn(UndefinedResourceCount(count))
                     /\ UNCHANGED << data, count, res >>
    /\ UNCHANGED << reg, bus, slot, function, devices, prt_eval, crs_eval, dest_in, caller,
                    pin, index, handle, bus_number, prt, prt_package, prt_entry, i,
                    dest, ret, allocs, frees, dest_writes, prt_evals >>
    /\ UNCHANGED evalVars

-----------------------------------------------------------------------------
(* src/src/pciroute.c: lai_pci_route.                                        *)

WILDCARD == 65535

\* (uint8_t)(laihost_pci_read(bus, slot, function, 0x3C) >> 8)
PinOf(r) == U8(Shr(r, 8))

\* pin == 0 || pin > 4
NoInterruptPin(p) == p = 0 \/ p > 4

\* lai_get_deviceid(index, &pnp_id): the device's number, 0 for NULL
lai_get_deviceid(idx) == IF idx < Len(devices) THEN idx + 1 ELSE 0

\* BusNumberAfter without the default of bus 0
BusNumberKept(ev, old) == IF ev.status # 0 THEN old ELSE ev.object

\* lines 55-61: bus_number after lai_eval(&bus_number, path), whose outcome is ev
BusNumberAfter(ev, old) == IF ev.status # 0 THEN IntObj(0) ELSE ev.object

\* (uint8_t)bus_number.integer == bus
BusMatches(bn, b) == U8(bn.integer) = b

\* AddressMatches without the wildcard test
AddressMatchesExact(addr, s, f) == Shr(addr, 16) = s /\ LowBits(addr, 16) = f

\* lines 116-118: the slot and function tests on element [0]
AddressMatches(addr, s, f) ==
    /\ Shr(addr, 16) = s
    /\ (LowBits(addr, 16) = WILDCARD \/ LowBits(addr, 16) = f)

\* line 128
PinMatches(entry_pin, p) == entry_pin = p

\* NextIndex without the increment
SameIndex(k) == k

\* line 134
NextIndex(k) == k + 1

\* lines 99-134: one turn of the _PRT scan
ScanStep(table, k, package, entry) ==
    LET r0 == lai_eval_package(table, k, package)
        p0 == r0.object
        r1 == lai_eval_package(p0, 0, entry)
        e0 == r1.object
        r2 == lai_eval_package(p0, 1, e0)
        e1 == r2.object
    IN  IF r0.status # 0 THEN [to |-> "fail", package |-> p0, entry |-> entry]
        ELSE IF p0.type # "LAI_PACKAGE" THEN [to |-> "fail", package |-> p0, entry |-> entry]
        ELSE IF r1.status # 0 THEN [to |-> "fail", package |-> p0, entry |-> e0]
        ELSE IF e0.type # "LAI_INTEGER" THEN [to |-> "fail", package |-> p0, entry |-> e0]
        ELSE IF AddressMatches(e0.integer, slot, function)
        THEN IF r2.status # 0 THEN [to |-> "fail", package |-> p0, entry |-> e1]
             ELSE IF e1.type # "LAI_INTEGER" THEN [to |-> "fail", package |-> p0, entry |-> e1]
             ELSE IF PinMatches(e1.integer, pin)
             THEN [to |-> "resolve_pin", package |-> p0, entry |-> e1]
             ELSE [to |-> "next", package |-> p0, entry |-> e1]
        ELSE [to |-> "next", package |-> p0, entry |-> e0]

\* return status
Return(status) ==
    /\ pc' = "done"
    /\ ret' = status

\* lines 33-46
ReadPin ==
    /\ pc = "start"
    /\ IF NoInterruptPin(PinOf(reg))
       THEN /\ Return(1)
            /\ UNCHANGED << pin, index, handle >>
       ELSE /\ pin' = PinOf(reg) - 1
            /\ index' = 0
            /\ handle' = lai_get_deviceid(0)
            /\ pc' = "find_bus"
            /\ UNCHANGED ret
    /\ UNCHANGED << reg, bus, slot, function, devices, prt_eval, crs_eval, dest_in, caller,
                    bus_number, prt, prt_package, prt_entry, i, res_count, dest,
                    data, count, res, allocs, frees, dest_writes, prt_evals >>
    /\ UNCHANGED evalVars

\* lines 50-68: one turn of while(handle != NULL)
FindBus ==
    /\ pc = "find_bus"
    /\ handle # 0
    /\ LET bn == BusNumberAfter(devices[handle], bus_number)
       IN  /\ bus_number' = bn
           /\ IF BusMatches(bn, bus)
              THEN /\ pc' = "eval_prt"
                   /\ UNCHANGED << index, handle >>
              ELSE /\ index' = index + 1
                   /\ handle' = lai_get_deviceid(index + 1)
                   /\ UNCHANGED pc
    /\ UNCHANGED << reg, bus, slot, function, devices, prt_eval, crs_eval, dest_in, caller,
                    pin, prt, prt_package, prt_entry, i, res_count, dest, ret,
                    data, count, res, allocs, frees, dest_writes, prt_evals >>
    /\ UNCHANGED evalVars

\* lines 70-71
NoRootBus ==
    /\ pc = "find_bus"
    /\ handle = 0
    /\ Return(1)
    /\ UNCHANGED << reg, bus, slot, function, devices, prt_eval, crs_eval, dest_in, caller,
                    pin, index, handle, bus_number, prt, prt_package, prt_entry, i,
                    res_count, dest, data, count, res, allocs, frees, dest_writes,
                    prt_evals >>
    /\ UNCHANGED evalVars

\* lines 74-95
EvalPrt ==
    /\ pc = "eval_prt"
    /\ prt_evals' = prt_evals + 1
    /\ IF prt_eval.status # 0
       THEN /\ Return(1)
            /\ UNCHANGED << prt, i >>
       ELSE /\ prt' = prt_eval.object
            /\ i' = 0
            /\ pc' = "scan_prt"
            /\ UNCHANGED ret
    /\ UNCHANGED << reg, bus, slot, function, devices, prt_eval, crs_eval, dest_in, caller,
                    pin, index, handle, bus_number, prt_package, prt_entry, res_count,
                    dest, data, count, res, allocs, frees, dest_writes >>
    /\ UNCHANGED evalVars

\* lines 97-135
ScanPrt ==
    /\ pc = "scan_prt"
    /\ LET r == ScanStep(prt, i, prt_package, prt_entry)
       IN  /\ prt_package' = r.package
           /\ prt_entry' = r.entry
           /\ IF r.to = "fail"
              THEN /\ Return(1)
                   /\ UNCHANGED i
              ELSE IF r.to = "resolve_pin"
              THEN /\ pc' = "resolve_pin"
                   /\ UNCHANGED << i, ret >>
              ELSE /\ i' = NextIndex(i)
                   /\ UNCHANGED << pc, ret >>
    /\ UNCHANGED << reg, bus, slot, function, devices, prt_eval, crs_eval, dest_in, caller,
                    pin, index, handle, bus_number, prt, res_count, dest,
                    data, count, res, allocs, frees, dest_writes, prt_evals >>
    /\ UNCHANGED evalVars

\* dest->irq_flags on the GSI path (line 156)
GsiFlags == BitOr(BitOr(ACPI_IRQ_LEVEL, ACPI_IRQ_ACTIVE_HIGH), ACPI_IRQ_SHARED)

\* GsiWrites with dest written before the status of the fetch is looked at
GsiWritesFirst(r3) == TRUE

\* lines 150-156: dest is written once the fetch of element [3] has succeeded
GsiWrites(r3) == r3.status = 0

\* lines 137-167, up to the call of lai_read_resource
ResolvePin ==
    /\ pc = "resolve_pin"
    /\ LET r2 == lai_eval_package(prt_package, 2, prt_entry)
           r3 == lai_eval_package(prt_package, 3, r2.object)
       IN  IF r2.status # 0
           THEN /\ Return(1)
                /\ prt_entry' = r2.object
                /\ UNCHANGED << dest, dest_writes, res, allocs >>
           ELSE IF r2.object.type = "LAI_INTEGER"
           THEN /\ prt_entry' = r3.object
                /\ Return(IF r3.status # 0 THEN 1 ELSE 0)
                /\ IF GsiWrites(r3)
                   THEN /\ dest' = Resource(ACPI_RESOURCE_IRQ, r3.object.integer, GsiFlags)
                        /\ dest_writes' = dest_writes + 1
                   ELSE UNCHANGED << dest, dest_writes >>
                /\ UNCHANGED << res, allocs >>
           ELSE IF r2.object.type = "LAI_HANDLE"
           THEN /\ prt_entry' = r2.object
                /\ res' = << >>
                /\ allocs' = allocs + 1
                /\ pc' = "rr_eval"
                /\ UNCHANGED << ret, dest, dest_writes >>
           ELSE /\ Return(1)
                /\ prt_entry' = r2.object
                /\ UNCHANGED << dest, dest_writes, res, allocs >>
    /\ UNCHANGED << reg, bus, slot, function, devices, prt_eval, crs_eval, dest_in, caller,
                    pin, index, handle, bus_number, prt, prt_package, i, res_count,
                    data, count, frees, prt_evals >>
    /\ UNCHANGED evalVars

\* res[k], for k below the count lai_read_resource returned
ResAt(k) == IF k < Len(res) THEN res[k + 1] ELSE ZeroResource

\* NoResources with the test dropped
NoResourcesNever(c) == FALSE

\* !res_count
NoResources(c) == c = 0

\* lines 169-172
LinkCheck ==
    /\ pc = "link"
    /\ IF NoResources(res_count)
       THEN /\ Return(1)
            /\ UNCHANGED i
       ELSE /\ i' = 0
            /\ pc' = "scan_res"
            /\ UNCHANGED ret
    /\ UNCHANGED << reg, bus, slot, function, devices, prt_eval, crs_eval, dest_in, caller,
                    pin, index, handle, bus_number, prt, prt_package, prt_entry,
                    res_count, dest, data, count, res, allocs, frees, dest_writes,
                    prt_evals >>
    /\ UNCHANGED evalVars

\* lines 173-190: one turn of while(i < res_count), or the return after it
ScanRes ==
    /\ pc = "scan_res"
    /\ IF i < res_count
       THEN IF ResAt(i).type = ACPI_RESOURCE_IRQ
            THEN /\ dest' = Resource(ACPI_RESOURCE_IRQ, ResAt(i).base, ResAt(i).irq_flags)
                 /\ dest_writes' = dest_writes + 1
                 /\ frees' = frees + 1
                 /\ Return(0)
                 /\ UNCHANGED i
            ELSE /\ i' = i + 1
                 /\ UNCHANGED << dest, dest_writes, frees, pc, ret >>
       ELSE /\ Return(0)
            /\ UNCHANGED << dest, dest_writes, frees, i >>
    /\ UNCHANGED << reg, bus, slot, function, devices, prt_eval, crs_eval, dest_in, caller,
                    pin, index, handle, bus_number, prt, prt_package, prt_entry,
                    res_count, data, count, res, allocs, prt_evals >>
    /\ UNCHANGED evalVars

-----------------------------------------------------------------------------
(* src/src/eval.c: lai_eval.                                                 *)

\* lai_resolve(handle->alias): the node the alias names, 0 for NULL
lai_resolve(h) == ns[h].alias

\* lines 137-143
EvalResolve ==
    /\ epc = "resolve"
    /\ ehandle' = epath
    /\ IF epath = 0
       THEN /\ eret' = 1
            /\ epc' = "done"
       ELSE /\ epc' = "alias"
            /\ UNCHANGED eret
    /\ UNCHANGED << ns, epath, edest, ehops >>
    /\ UNCHANGED routeVars

\* lines 145-150: one turn of while(handle->type == LAI_NAMESPACE_ALIAS)
EvalAlias ==
    /\ epc = "alias"
    /\ ns[ehandle].type = "LAI_NAMESPACE_ALIAS"
    /\ ehandle' = lai_resolve(ehandle)
    /\ IF lai_resolve(ehandle) = 0
       THEN /\ eret' = 1
            /\ epc' = "done"
       ELSE UNCHANGED << eret, epc >>
    /\ ehops' = IF ehops <= MaxHops THEN ehops + 1 ELSE ehops
    /\ UNCHANGED << ns, epath, edest >>
    /\ UNCHANGED routeVars

\* lines 152-168
EvalObject ==
    /\ epc = "alias"
    /\ ns[ehandle].type # "LAI_NAMESPACE_ALIAS"
    /\ epc' = "done"
    /\ IF ns[ehandle].type = "LAI_NAMESPACE_NAME"
       THEN /\ edest' = ns[ehandle].object
            /\ eret' = 0
       ELSE IF ns[ehandle].type = "LAI_NAMESPACE_METHOD"
       THEN /\ eret' = ns[ehandle].exec
            /\ edest' = IF ns[ehandle].exec # 0 THEN edest ELSE ns[ehandle].object
       ELSE /\ eret' = 1
            /\ UNCHANGED edest
    /\ UNCHANGED << ns, epath, ehandle, ehops >>
    /\ UNCHANGED routeVars

-----------------------------------------------------------------------------
(* The inputs the model draws.                                               *)

\* sequences over S of length at most n
SeqUpTo(S, n) == UNION { [1..k -> S] : k \in 0..n }

RECURSIVE Concat(_)
Concat(ss) == IF ss = << >> THEN << >> ELSE Head(ss) \o Concat(Tail(ss))

\* the query, and element [0] of a _PRT entry
SlotMenu == { 2 }
FunctionMenu == { 0, 1 }
Addr(s, f) == s * 65536 + f

\* config reads at 0x3C: pin bytes 0, 1, 2 (under a set bit 16) and 5
RegMenu == { 0, 256, 66048, 1280 }

\* outcomes of lai_eval(<path>._BBN)
BbnMenu == { Failed, Ok(IntObj(0)), Ok(IntObj(1)), Ok(IntObj(256)) }

\* _PRT entries: well formed for a GSI, for a link device, and malformed
GsiEntry(addr, p, gsi) == PkgObj(<< IntObj(addr), IntObj(p), IntObj(0), IntObj(gsi) >>)
LinkEntry(addr, p) == PkgObj(<< IntObj(addr), IntObj(p), HandleObj(1), IntObj(0) >>)
EntryMenu ==
    { GsiEntry(Addr(2, f), p, 9) : f \in { 0, 1, WILDCARD }, p \in { 0, 1 } }
    \cup { GsiEntry(Addr(3, WILDCARD), 0, 10),
           GsiEntry(Addr(16384 + 2, 1), 0, 11),
           GsiEntry(Addr(2, 1), 256, 14),
           LinkEntry(Addr(2, WILDCARD), 0),
           PkgObj(<< IntObj(Addr(2, 1)), IntObj(0), IntObj(0) >>),
           PkgObj(<< IntObj(Addr(2, 1)), IntObj(0), StrObj, IntObj(0) >>),
           PkgObj(<< IntObj(Addr(2, 1)), IntObj(0) >>),
           PkgObj(<< IntObj(Addr(2, 1)), StrObj, IntObj(0), IntObj(12) >>),
           PkgObj(<< IntObj(Addr(2, WILDCARD)) >>),
           PkgObj(<< StrObj, IntObj(0), IntObj(0), IntObj(13) >>),
           PkgObj(<< >>),
           IntObj(7) }
PrtMenu == { Failed, Ok(IntObj(0)) } \cup { Ok(PkgObj(t)) : t \in SeqUpTo(EntryMenu, MaxPrt) }

\* resource descriptors: small IRQ with 2, 3, 1 payload bytes, large IRQ, unrecognized
DescriptorMenu ==
    { << 34, 10, 0 >>, << 34, 1, 128 >>, << 34, 0, 0 >>,
      << 35, 32, 0, 24 >>,
      << 33, 4 >>,
      << 137, 6, 0, 13, 1, 20, 1, 0, 0 >>,
      << 42, 0, 0 >>,
      << 134, 9, 0, 0, 0, 0, 0, 0, 0, 0, 0, 0 >>,
      << 120 >> }
CrsOk(b) == [status |-> 0, buffer |-> b]
CrsFailed == [status |-> 1, buffer |-> << >>]
CrsMenu ==
    { CrsFailed } \cup { CrsOk(Concat(ds) \o << END_TAG, 0 >>) : ds \in SeqUpTo(DescriptorMenu, MaxDesc) }

\* what the caller's dest holds before the call
DestMenu == { ZeroResource, Resource(ACPI_RESOURCE_IRQ, 7, 1) }

\* the namespace lai_eval walks
Nodes == 1..MaxNodes
Node(t, a, x) == [type |-> t, alias |-> a, object |-> IntObj(5), exec |-> x]
NodeMenu ==
    { Node("LAI_NAMESPACE_NAME", 0, 0), Node("LAI_NAMESPACE_DEVICE", 0, 0),
      Node("LAI_NAMESPACE_METHOD", 0, 0), Node("LAI_NAMESPACE_METHOD", 0, 1) }
    \cup { Node("LAI_NAMESPACE_ALIAS", a, 0) : a \in 0..MaxNodes }

-----------------------------------------------------------------------------
(* Initial states.                                                           *)

\* the locals of lai_pci_route and lai_read_resource before the call
LocalsInit ==
    /\ pin = 0 /\ index = 0 /\ handle = 0
    /\ bus_number = ZeroObject /\ prt = ZeroObject
    /\ prt_package = ZeroObject /\ prt_entry = ZeroObject
    /\ i = 0 /\ res_count = 0 /\ ret = 0
    /\ data = 1 /\ count = 0 /\ res = << >>
    /\ allocs = 0 /\ frees = 0 /\ dest_writes = 0 /\ prt_evals = 0
    /\ dest = dest_in

\* lai_eval is not running
EvalIdle ==
    /\ ns = [n \in Nodes |-> Node("LAI_NAMESPACE_NAME", 0, 0)]
    /\ epath = 0 /\ epc = "idle" /\ ehandle = 0 /\ eret = 0 /\ edest = ZeroObject
    /\ ehops = 0

\* lai_pci_route on every list of root buses
InitBus ==
    /\ pc = "start" /\ caller = "route"
    /\ reg \in RegMenu
    /\ bus \in { 0, 1 }
    /\ slot = 2 /\ function = 1
    /\ devices \in SeqUpTo(BbnMenu, MaxDev)
    /\ prt_eval \in { Failed, Ok(PkgObj(<< GsiEntry(Addr(2, 1), 0, 9) >>)) }
    /\ crs_eval = CrsFailed
    /\ dest_in = ZeroResource
    /\ LocalsInit /\ EvalIdle

\* lai_pci_route on every routing table
InitPrt ==
    /\ pc = "start" /\ caller = "route"
    /\ reg \in { 256, 66048 }
    /\ bus = 0
    /\ slot \in SlotMenu /\ function \in FunctionMenu
    /\ devices = << Ok(IntObj(0)) >>
    /\ prt_eval \in PrtMenu
    /\ crs_eval = CrsOk(<< 34, 32, 0, END_TAG, 0 >>)
    /\ dest_in \in DestMenu
    /\ LocalsInit /\ EvalIdle

\* lai_pci_route through a link device with every resource buffer
InitLink ==
    /\ pc = "start" /\ caller = "route"
    /\ reg = 256
    /\ bus = 0
    /\ slot = 2 /\ function = 1
    /\ devices = << Failed >>
    /\ prt_eval = Ok(PkgObj(<< LinkEntry(Addr(2, WILDCARD), 0) >>))
    /\ crs_eval \in CrsMenu
    /\ dest_in \in DestMenu
    /\ LocalsInit /\ EvalIdle

\* lai_read_resource called on its own, on a zeroed array
InitRead ==
    /\ pc = "rr_eval" /\ caller = "direct"
    /\ reg = 0 /\ bus = 0 /\ slot = 0 /\ function = 0
    /\ devices = << >>
    /\ prt_eval = Failed
    /\ crs_eval \in CrsMenu
    /\ dest_in = ZeroResource
    /\ LocalsInit /\ EvalIdle

Init == InitBus \/ InitPrt \/ InitLink \/ InitRead

Next ==
    \/ ReadPin \/ FindBus \/ NoRootBus \/ EvalPrt \/ ScanPrt \/ ResolvePin
    \/ ReadEval \/ ReadDescriptor \/ LinkCheck \/ ScanRes

Spec == Init /\ [][Next]_vars

\* the code runs on: a call that can take a step takes it
FairSpec == Spec /\ WF_vars(Next)

\* lai_eval on every namespace of MaxNodes nodes
InitEval ==
    /\ ns \in [Nodes -> NodeMenu]
    /\ epath \in 0..MaxNodes
    /\ epc = "resolve" /\ ehandle = 0 /\ eret = 0 /\ edest = ZeroObject
    /\ ehops = 0
    /\ pc = "idle" /\ caller = "none"
    /\ reg = 0 /\ bus = 0 /\ slot = 0 /\ function = 0
    /\ devices = << >>
    /\ prt_eval = Failed
    /\ crs_eval = CrsFailed
    /\ dest_in = ZeroResource
    /\ LocalsInit

NextEval == EvalResolve \/ EvalAlias \/ EvalObject

SpecEval == InitEval /\ [][NextEval]_vars

-----------------------------------------------------------------------------
(* Properties.                                                               *)

\* lai_pci_route has returned
Returned == caller = "route" /\ pc = "done"

\* entry k (from 0) of the routing table matches the query, read off the table
EntryMatchesQuery(k) ==
    LET e == prt.package[k + 1]
    IN  /\ e.type = "LAI_PACKAGE"
        /\ Len(e.package) >= 2
        /\ e.package[1].type = "LAI_INTEGER"
        /\ e.package[2].type = "LAI_INTEGER"
        /\ e.package[1].integer \div 65536 = slot
        /\ e.package[1].integer % 65536 \in { function, 65535 }
        /\ e.package[2].integer = pin
MatchingEntries ==
    IF prt.type = "LAI_PACKAGE"
    THEN { k \in 0..(Len(prt.package) - 1) : EntryMatchesQuery(k) }
    ELSE { }
IsLowestMatch(k) == k \in MatchingEntries /\ \A j \in MatchingEntries : k <= j

\* C1: the entry lai_pci_route resolves is the matching entry of lowest index,
\* wildcard or exact, and a successful return rests on that entry alone.
FirstMatchWins ==
    /\ pc = "resolve_pin" => (IsLowestMatch(i) /\ prt_package = prt.package[i + 1])
    /\ ((caller = "route" /\ pc \in { "rr_eval", "rr_loop", "link", "scan_res" })
            \/ (Returned /\ ret = 0)) =>
           \E k \in MatchingEntries : IsLowestMatch(k) /\ prt_package = prt.package[k + 1]
    /\ (Returned /\ ret = 0 /\ allocs = 0) =>
           /\ IsLowestMatch(i)
           /\ dest.base = prt.package[i + 1].package[4].integer

\* C1 witness: a wildcard entry listed before an exact entry, both matching, the first resolved
WildcardBeforeExactResolved ==
    /\ pc = "resolve_pin"
    /\ i = 0
    /\ MatchingEntries = { 0, 1 }
    /\ prt.package[1].package[1].integer % 65536 = 65535
    /\ prt.package[2].package[1].integer % 65536 = function

\* the resource list lai_read_resource handed back has no Interrupt entry
NoInterruptEntry == \A k \in 0..(res_count - 1) : ResAt(k).type # ACPI_RESOURCE_IRQ

\* C2: a link device without an Interrupt entry makes lai_pci_route fail, and
\* every return of 0 has written dest with type Interrupt.
LinkWithoutInterruptFails ==
    Returned =>
        /\ (allocs = 1 /\ NoInterruptEntry) => ret # 0
        /\ ret = 0 => (dest_writes = 1 /\ dest.type = ACPI_RESOURCE_IRQ)

\* C2 witness: the link device's buffer was parsed, gave no entry, and the call failed
EmptyLinkListFailed ==
    /\ Returned /\ allocs = 1
    /\ crs_eval.status = 0
    /\ res_count = 0
    /\ ret = 1

\* lai_read_resource has returned res_count
ReadReturned == pc = "link" \/ (caller = "direct" /\ pc = "done")

\* a descriptor of unrecognized type stands before the end tag, by the framing rules
RECURSIVE UnrecognizedBeforeEnd(_, _)
UnrecognizedBeforeEnd(buf, p) ==
    LET b == buf[p]
    IN  IF b = 121 THEN FALSE
        ELSE IF b < 128
        THEN IF b \div 8 = 15 THEN FALSE
             ELSE IF b \div 8 = 4 THEN UnrecognizedBeforeEnd(buf, p + 1 + (b % 8))
             ELSE TRUE
        ELSE IF b = 137 THEN UnrecognizedBeforeEnd(buf, p + 3 + buf[p + 1] + 256 * buf[p + 2])
        ELSE TRUE

\* C3: an unrecognized descriptor before the end tag makes lai_read_resource return 0,
\* whatever was decoded before it.
UnrecognizedDiscardsAll ==
    (ReadReturned /\ crs_eval.status = 0 /\ UnrecognizedBeforeEnd(crs_eval.buffer, 1))
        => res_count = 0

\* C3 witness: entries had been decoded when the unrecognized descriptor was met
DecodedThenDiscarded ==
    /\ ReadReturned
    /\ crs_eval.status = 0
    /\ UnrecognizedBeforeEnd(crs_eval.buffer, 1)
    /\ Len(res) >= 2
    /\ res_count = 0

\* the set bits of a 16-bit mask, and the j-th of them in ascending order
SetBits(m) == { b \in 0..15 : (m \div Pow2(b)) % 2 = 1 }
NthSetBit(m, j) == CHOOSE b \in SetBits(m) : Cardinality({ x \in SetBits(m) : x < b }) = j - 1

\* the parser stands at a small IRQ descriptor
AtSmallIrq == pc = "rr_loop" /\ Byte(0) # 121 /\ Byte(0) < 128 /\ Byte(0) \div 8 = 4

\* the step over a small IRQ descriptor with mask m and payload length n
SmallIrqStepEffect ==
    LET m == Buffer[data + 1] + 256 * Buffer[data + 2]
        n == Byte(0) % 8
        f == IF n >= 3 THEN Buffer[data + 3]
             ELSE BitOr(BitOr(ACPI_IRQ_ACTIVE_HIGH, ACPI_IRQ_EDGE), ACPI_IRQ_EXCLUSIVE)
        added == Cardinality(SetBits(m))
    IN  /\ count' = count + added
        /\ Len(res') = Len(res) + added
        /\ \A k \in 1..Len(res) : res'[k] = res[k]
        /\ \A j \in 1..added :
               res'[count + j] = Resource(ACPI_RESOURCE_IRQ, NthSetBit(m, j), f)
        /\ data' = data + 1 + n

\* C4: a small IRQ descriptor appends one Interrupt entry per set mask bit, in
\* ascending bit order, with the config byte or the default flags, and the
\* cursor advances by 1 + payload length.
SmallIrqOneEntryPerBit == [][AtSmallIrq => SmallIrqStepEffect]_vars

\* C4 witness: mask 0x000A without a config byte has been decoded into IRQ 1 and IRQ 3
SmallIrqTwoBitsDecoded ==
    /\ pc = "rr_loop"
    /\ data = 4
    /\ SubSeq(crs_eval.buffer, 1, 3) = << 34, 10, 0 >>
    /\ count = 2
    /\ res = << Resource(ACPI_RESOURCE_IRQ, 1, 1), Resource(ACPI_RESOURCE_IRQ, 3, 1) >>

\* the base bus number of device k (from 1) as the claim words it: the value of
\* _BBN, or 0 when the evaluation fails
BbnValue(k) == IF devices[k].status # 0 THEN 0 ELSE devices[k].object.integer

\* the same, cut to the 8 bits the comparison with the target bus keeps
BbnLowByte(k) == BbnValue(k) % 256

\* the bus scan has chosen a device and gone on to its _PRT
BusChosen == caller = "route" /\ (pc = "eval_prt" \/ prt_evals > 0)

\* the bus scan ran and found no device
BusNotFound ==
    Returned /\ prt_evals = 0 /\ PinOf(reg) \in 1..4

\* C5 as stated: the first device whose _BBN value equals the target bus is
\* selected, and without such a device no _PRT is evaluated.
FirstEqualBbnSelected ==
    /\ BusChosen =>
           /\ handle \in 1..Len(devices)
           /\ BbnValue(handle) = bus
           /\ \A j \in 1..(handle - 1) : BbnValue(j) # bus
    /\ (caller = "route" /\ \A k \in 1..Len(devices) : BbnValue(k) # bus) =>
           (prt_evals = 0 /\ pc # "eval_prt")
    /\ BusNotFound => \A k \in 1..Len(devices) : BbnValue(k) # bus

\* C5 amended: the first device whose _BBN value, cut to its low 8 bits, equals
\* the target bus is selected, and without such a device no _PRT is evaluated.
FirstEqualLowByteSelected ==
    /\ BusChosen =>
           /\ handle \in 1..Len(devices)
           /\ BbnLowByte(handle) = bus
           /\ \A j \in 1..(handle - 1) : BbnLowByte(j) # bus
    /\ (caller = "route" /\ \A k \in 1..Len(devices) : BbnLowByte(k) # bus) =>
           (prt_evals = 0 /\ pc # "eval_prt")
    /\ BusNotFound => \A k \in 1..Len(devices) : BbnLowByte(k) # bus

\* C5 witness: the second device is selected for bus 0 on a _BBN of 256, after a
\* first device on bus 1
SecondDeviceSelected ==
    /\ pc = "eval_prt"
    /\ bus = 0
    /\ handle = 2
    /\ BbnValue(1) = 1
    /\ BbnValue(2) = 256

\* C6: lai_eval follows aliases for a bounded number of hops: it never takes more
\* than MaxHops turns of the alias loop, on a cycle of aliases either.
AliasHopsBounded == ehops <= MaxHops

\* C7: whenever lai_pci_route returns after allocating the scratch array, the
\* array has been freed exactly once.
ScratchFreedOnce == (Returned /\ allocs = 1) => frees = 1

\* C8: lai_read_resource writes no entry at an index at or past the capacity of
\* the destination array.
WritesWithinCapacity == Len(res) <= ACPI_MAX_RESOURCES

\* one step of the two scans of lai_pci_route
ScansInOrder ==
    /\ (pc = "find_bus" /\ handle = 0) => (pc' = "done" /\ ret' = 1)
    /\ (pc = "find_bus" /\ pc' = "find_bus") => index' = index + 1
    /\ (pc = "scan_prt" /\ prt.type = "LAI_PACKAGE" /\ i >= Len(prt.package)) =>
           (pc' = "done" /\ ret' = 1)
    /\ (pc = "scan_prt" /\ pc' = "scan_prt") => (i' = i + 1 /\ i' <= Len(prt.package))

FailureLeavesDest ==
    caller = "route" =>
        /\ (pc = "done" /\ ret # 0) => (dest = dest_in /\ dest_writes = 0)
        /\ dest_writes > 0 => (pc = "done" /\ ret = 0)
        /\ dest_writes = 0 => dest = dest_in

\* C10 witness: the GSI path failed on a missing element [3], with a dest the
\* caller had filled before
GsiFetchFailedDestKept ==
    /\ Returned /\ ret = 1
    /\ prt_package.type = "LAI_PACKAGE"
    /\ Len(prt_package.package) = 3
    /\ prt_package.package[3].type = "LAI_INTEGER"
    /\ dest_in = Resource(ACPI_RESOURCE_IRQ, 7, 1)
    /\ dest = dest_in

============================================================================
